---- MODULE Spec2Model ----
(***************************************************************************)
(* A model of the container adapters of data-structures-in-rust:          *)
(*   Queue    (queue_with_stack.rs)              a queue on two Vec stacks *)
(*   Stack    (collections/stack_with_queue.rs)  a stack on two VecDeques  *)
(*   MinStack (min_stack.rs)                     a Vec of (item, min)      *)
(* One instance of one of the three structures is driven by an arbitrary  *)
(* caller; `target` names the structure being driven.  Further targets:   *)
(*   Money         (money.rs)         From<u64> for Money                  *)
(*   Adler32Hasher (crypto/adler.rs)  write and finish                     *)
(*   MinStacks     (lib.rs)           the crate root's MinStack, driven    *)
(*                                    side by side with min_stack.rs's     *)
(***************************************************************************)
EXTENDS Integers, Sequences, FiniteSets

\* Bounds of the exploration.
MaxVal == 3
MaxPush == 4
MaxLen == 3
MaxWrites == 2
MaxSlice == 2
MaxRun == 257

\* The element type T, instantiated by a small totally ordered set.
Vals == 1..MaxVal

VARIABLES
    target,     \* which structure this behaviour drives
    queue,      \* Queue(Vec<T>, Vec<T>): <<self.0, self.1>>, a Vec's top is its last
    stack,      \* Stack(VecDeque<T>, VecDeque<T>): <<self.0, self.1>>, front first
    min_stack,  \* MinStack(Vec<(T, T)>): the receiver of the calls
    other,      \* a second MinStack, the argument of append
    op,         \* the last operation called
    ret,        \* what it returned (an Option<T>; finish: a u64 in limbs)
    pre,        \* the containers as they were when it was called (the hasher:
                \* with the bytes handed to write)
    iter,       \* what a consuming iteration yielded
    pushed,     \* every item pushed on the Queue or Stack, in call order (the
                \* hasher: every byte written)
    popped,     \* every item a pop of the Queue or Stack returned, in call order
    run,        \* the latest uninterrupted run of pushed items
    got,        \* the results of the pops that followed that run
    made,       \* how the structure was built or last emptied: "new", "clear",
                \* or "from_iter" with the items handed over
    transfers,  \* how many items a Queue has moved from self.0 to self.1
    ids,        \* the Queue or Stack again, holding for each item the number of
                \* the push that brought it (1 for the first push, 2, ...)
    taken,      \* the push numbers of the items the pops returned, in call order
    amount,     \* the u64 handed to Money::from, as 16-bit limbs, lowest first
    money,      \* what Money::from did: a panic, or the Money(i64) it returned
    hasher,     \* Adler32Hasher(u32, u32, u32): <<self.0, self.1, self.2>>
    peak,       \* the largest sum a write has computed before reducing it
    written,    \* how many write calls the hasher has received
    lib_stack,  \* lib.rs's MinStack(Vec<Item<T>>), given the calls min_stack gets
    lib_ret     \* what the last call returned on lib_stack

vars == <<target, queue, stack, min_stack, other, op, ret, pre, iter,
          pushed, popped, run, got, made, transfers, ids, taken,
          amount, money, hasher, peak, written, lib_stack, lib_ret>>

\* The variables of the further targets.
further == <<amount, money, hasher, peak, written, lib_stack, lib_ret>>

-----------------------------------------------------------------------------
\* Option<T>
None == <<>>
Some(v) == <<v>>
unwrap(o) == o[1]

\* Vec<T> / VecDeque<T> primitives, on sequences.
Last(s) == s[Len(s)]
Front(s) == SubSeq(s, 1, Len(s) - 1)
rev(s) == [i \in 1..Len(s) |-> s[Len(s) + 1 - i]]

\* Vec::pop: removes and returns the last element.
Vec_pop(v) ==
    IF v = <<>> THEN [self |-> v, ret |-> None]
    ELSE [self |-> Front(v), ret |-> Some(Last(v))]

\* VecDeque::pop_front: removes and returns the first element.
VecDeque_pop_front(d) ==
    IF d = <<>> THEN [self |-> d, ret |-> None]
    ELSE [self |-> Tail(d), ret |-> Some(Head(d))]

\* std::cmp::min: the first argument unless the second is smaller.
min(a, b) == IF b < a THEN b ELSE a

-----------------------------------------------------------------------------
\* Queue (queue_with_stack.rs)

Queue_new == <<<<>>, <<>>>>

Queue_push(q, item) == <<Append(q[1], item), q[2]>>

\* A slip: the inbox is moved over without .rev().
move_to_second_stack_no_rev(q) == <<<<>>, q[2] \o q[1]>>

\* A slip: self.1 is assigned the reversed items, not extended with them.
move_to_second_stack_assign(q) == <<<<>>, rev(q[1])>>

\* A slip: self.0 is cloned, not taken, and keeps its items.
move_to_second_stack_clone(q) == <<q[1], q[2] \o rev(q[1])>>

\* mem::take(&mut self.0), then self.1.extend(v.into_iter().rev())
move_to_second_stack(q) == <<<<>>, q[2] \o rev(q[1])>>

Queue_pop(q) ==
    LET m == move_to_second_stack(q)
        p == Vec_pop(m[2])
    IN  [self |-> <<m[1], p.self>>, ret |-> p.ret]

\* A slip: the loop hands the items over last first.
Queue_from_iter_rev(items) == <<rev(items), <<>>>>

\* let mut queue = Queue::new(); for i in iter { queue.push(i) }; queue
RECURSIVE Queue_from_iter(_)
Queue_from_iter(items) ==
    IF items = <<>> THEN Queue_new
    ELSE Queue_push(Queue_from_iter(Front(items)), Last(items))

\* How many items move_to_second_stack adds to self.1.
moved(q) == Len(move_to_second_stack(q)[2]) - Len(q[2])

\* self.0.into_iter().chain(self.1.into_iter())
Queue_into_iter(q) == q[1] \o q[2]

-----------------------------------------------------------------------------
\* Stack (collections/stack_with_queue.rs)

Stack_new == <<<<>>, <<>>>>

Stack_push(s, item) == <<Append(s[1], item), s[2]>>

\* drains self.0 into temp, then self.1 = temp.into_iter().rev().collect()
move_to_second(s) == <<<<>>, rev(s[1])>>

Stack_pop(s) ==
    LET m == move_to_second(s)
        p == VecDeque_pop_front(m[2])
    IN  [self |-> <<m[1], p.self>>, ret |-> p.ret]

-----------------------------------------------------------------------------
\* MinStack (min_stack.rs): a sequence of <<item, running minimum>>

MinStack_new == <<>>

\* The items of a MinStack, bottom to top.
Values(s) == [i \in 1..Len(s) |-> s[i][1]]

\* A slip: an empty stack answers T::default() instead of None.
MinStack_min_default(s) == IF s = <<>> THEN Some(0) ELSE Some(Last(s)[2])

\* A slip: min reads the first entry, not the last.
MinStack_min_first(s) == IF s = <<>> THEN None ELSE Some(s[1][2])

MinStack_min(s) == IF s = <<>> THEN None ELSE Some(Last(s)[2])

\* A slip: peek reads the entry's second field.
MinStack_peek_field1(s) == IF s = <<>> THEN None ELSE Some(Last(s)[2])

MinStack_peek(s) == IF s = <<>> THEN None ELSE Some(Last(s)[1])

\* A slip: the new item is compared with the top item, not the running minimum.
MinStack_push_top_item(s, item) ==
    IF s # <<>>
    THEN Append(s, <<item, min(Last(s)[1], item)>>)
    ELSE Append(s, <<item, item>>)

\* A slip: the larger of the two is kept as the running minimum.
MinStack_push_max(s, item) ==
    IF s # <<>>
    THEN LET curr_min == Last(s)[2]
         IN  Append(s, <<item, IF curr_min < item THEN item ELSE curr_min>>)
    ELSE Append(s, <<item, item>>)

\* A slip: the new minimum is written into every entry.
MinStack_push_rewrite(s, item) ==
    IF s # <<>>
    THEN LET new_min == min(Last(s)[2], item)
         IN  [i \in 1..Len(s) + 1 |->
                IF i <= Len(s) THEN <<s[i][1], new_min>> ELSE <<item, new_min>>]
    ELSE Append(s, <<item, item>>)

MinStack_push(s, item) ==
    IF s # <<>>
    THEN LET curr_min == unwrap(MinStack_min(s))
             new_min == min(curr_min, item)
         IN  Append(s, <<item, new_min>>)
    ELSE Append(s, <<item, item>>)

RECURSIVE MinStack_from(_)
MinStack_from(vec) ==
    IF vec = <<>> THEN MinStack_new
    ELSE MinStack_push(MinStack_from(Front(vec)), Last(vec))

\* A slip: pop hands back the entry's second field.
MinStack_pop_field1(s) ==
    LET p == Vec_pop(s)
    IN  [self |-> p.self,
         ret |-> IF p.ret = None THEN None ELSE Some(unwrap(p.ret)[2])]

MinStack_pop(s) ==
    LET p == Vec_pop(s)
    IN  [self |-> p.self,
         ret |-> IF p.ret = None THEN None ELSE Some(unwrap(p.ret)[1])]

\* A slip: clear drops the top entry only.
MinStack_clear_top(s) == Front(s)

MinStack_clear(s) == <<>>

MinStack_is_empty(s) == s = <<>>

MinStack_len(s) == Len(s)

\* let other = mem::take(other); for item in other { self.push(item.0) }
RECURSIVE MinStack_extend(_, _)
MinStack_extend(s, items) ==
    IF items = <<>> THEN s
    ELSE MinStack_extend(MinStack_push(s, Head(items)[1]), Tail(items))

\* A slip: the entries are moved over as they are (Vec::append), minima and all.
MinStack_append_raw(s, o) == [self |-> s \o o, other |-> MinStack_new]

MinStack_append(s, o) ==
    [self |-> MinStack_extend(s, o), other |-> MinStack_new]

-----------------------------------------------------------------------------
\* The caller's record of its calls.

\* A push extends the current run of pushes, or starts a new run when pops
\* have been answered since.
RunAfterPush(item) == IF got = <<>> THEN Append(run, item) ELSE <<item>>

\* The pops that follow a run of n pushes: the first n results are recorded.
GotAfterPop(r) == IF Len(got) < Len(run) THEN Append(got, r) ELSE got

PoppedAfter(r) == IF r = None THEN popped ELSE Append(popped, unwrap(r))

Live == op # "into_iter"

-----------------------------------------------------------------------------
\* The calls on a Queue.

QPush(item) ==
    /\ target = "Queue" /\ Live
    /\ Len(pushed) < MaxPush
    /\ queue' = Queue_push(queue, item)
    /\ ids' = Queue_push(ids, Len(pushed) + 1)
    /\ op' = "push" /\ ret' = None /\ pre' = queue
    /\ pushed' = Append(pushed, item)
    /\ run' = RunAfterPush(item) /\ got' = <<>>
    /\ UNCHANGED <<made, transfers, taken>>
    /\ UNCHANGED further
    /\ UNCHANGED <<target, stack, min_stack, other, iter, popped>>

QPop ==
    /\ target = "Queue" /\ Live
    /\ LET r == Queue_pop(queue)
       IN  /\ queue' = r.self
           /\ ret' = r.ret
           /\ popped' = PoppedAfter(r.ret)
           /\ got' = GotAfterPop(r.ret)
    /\ LET n == Queue_pop(ids)
       IN  ids' = n.self /\ taken' = taken \o n.ret
    /\ transfers' = transfers + moved(queue)
    /\ op' = "pop" /\ pre' = queue
    /\ UNCHANGED made
    /\ UNCHANGED further
    /\ UNCHANGED <<target, stack, min_stack, other, iter, pushed, run>>

\* into_iter takes the queue by value: nothing can be called on it afterwards.
QIntoIter ==
    /\ target = "Queue" /\ Live
    /\ iter' = Queue_into_iter(queue)
    /\ queue' = Queue_new /\ ids' = Queue_new
    /\ op' = "into_iter" /\ ret' = None /\ pre' = queue
    /\ UNCHANGED <<made, transfers, taken>>
    /\ UNCHANGED further
    /\ UNCHANGED <<target, stack, min_stack, other, pushed, popped, run, got>>

\* The iterators handed to from_iter: the finite sequences of items.
RECURSIVE SeqsUpTo(_)
SeqsUpTo(n) ==
    IF n = 0 THEN {<<>>}
    ELSE LET shorter == SeqsUpTo(n - 1)
         IN  shorter \cup {Append(w, v) : w \in shorter, v \in Vals}

\* Queue::from_iter builds the queue: it is the first call or it is not made.
QFromIter ==
    /\ target = "Queue" /\ op = "new"
    /\ \E items \in SeqsUpTo(MaxPush) :
        /\ queue' = Queue_from_iter(items)
        /\ ids' = Queue_from_iter([i \in 1..Len(items) |-> i])
        /\ pushed' = items /\ run' = items
        /\ made' = <<"from_iter", items>>
    /\ op' = "from_iter" /\ ret' = None /\ pre' = queue
    /\ UNCHANGED further
    /\ UNCHANGED <<target, stack, min_stack, other, iter, popped, got,
                   transfers, taken>>

QueueNext ==
    \/ \E item \in Vals : QPush(item)
    \/ QPop
    \/ QIntoIter
    \/ QFromIter

-----------------------------------------------------------------------------
\* The calls on a Stack.

SPush(item) ==
    /\ target = "Stack"
    /\ Len(pushed) < MaxPush
    /\ stack' = Stack_push(stack, item)
    /\ ids' = Stack_push(ids, Len(pushed) + 1)
    /\ op' = "push" /\ ret' = None /\ pre' = stack
    /\ pushed' = Append(pushed, item)
    /\ run' = RunAfterPush(item) /\ got' = <<>>
    /\ UNCHANGED <<made, transfers, taken>>
    /\ UNCHANGED further
    /\ UNCHANGED <<target, queue, min_stack, other, iter, popped>>

SPop ==
    /\ target = "Stack"
    /\ LET r == Stack_pop(stack)
       IN  /\ stack' = r.self
           /\ ret' = r.ret
           /\ popped' = PoppedAfter(r.ret)
           /\ got' = GotAfterPop(r.ret)
    /\ LET n == Stack_pop(ids)
       IN  ids' = n.self /\ taken' = taken \o n.ret
    /\ op' = "pop" /\ pre' = stack
    /\ UNCHANGED <<made, transfers>>
    /\ UNCHANGED further
    /\ UNCHANGED <<target, queue, min_stack, other, iter, pushed, run>>

StackNext == (\E item \in Vals : SPush(item)) \/ SPop

-----------------------------------------------------------------------------
\* The calls on a MinStack, and on the second MinStack handed to append.

MPush(item) ==
    /\ target = "MinStack"
    /\ Len(min_stack) + Len(other) < MaxLen
    /\ min_stack' = MinStack_push(min_stack, item)
    /\ op' = "push" /\ ret' = None /\ pre' = <<min_stack, other>>
    /\ run' = RunAfterPush(item) /\ got' = <<>>
    /\ UNCHANGED <<made, transfers, ids, taken>>
    /\ UNCHANGED further
    /\ UNCHANGED <<target, queue, stack, other, iter, pushed, popped>>

MPop ==
    /\ target = "MinStack"
    /\ LET r == MinStack_pop(min_stack)
       IN  /\ min_stack' = r.self
           /\ ret' = r.ret
           /\ got' = GotAfterPop(r.ret)
    /\ op' = "pop" /\ pre' = <<min_stack, other>>
    /\ UNCHANGED <<made, transfers, ids, taken>>
    /\ UNCHANGED further
    /\ UNCHANGED <<target, queue, stack, other, iter, pushed, popped, run>>

MPeek ==
    /\ target = "MinStack"
    /\ ret' = MinStack_peek(min_stack)
    /\ op' = "peek" /\ pre' = <<min_stack, other>>
    /\ UNCHANGED <<made, transfers, ids, taken>>
    /\ UNCHANGED further
    /\ UNCHANGED <<target, queue, stack, min_stack, other, iter,
                   pushed, popped, run, got>>

MMin ==
    /\ target = "MinStack"
    /\ ret' = MinStack_min(min_stack)
    /\ op' = "min" /\ pre' = <<min_stack, other>>
    /\ UNCHANGED <<made, transfers, ids, taken>>
    /\ UNCHANGED further
    /\ UNCHANGED <<target, queue, stack, min_stack, other, iter,
                   pushed, popped, run, got>>

MClear ==
    /\ target = "MinStack"
    /\ min_stack' = MinStack_clear(min_stack)
    /\ op' = "clear" /\ ret' = None /\ pre' = <<min_stack, other>>
    /\ run' = <<>> /\ got' = <<>>
    /\ made' = <<"clear", <<>>>>
    /\ UNCHANGED <<transfers, ids, taken>>
    /\ UNCHANGED further
    /\ UNCHANGED <<target, queue, stack, other, iter, pushed, popped>>

MAppend ==
    /\ target = "MinStack"
    /\ LET r == MinStack_append(min_stack, other)
       IN  /\ min_stack' = r.self
           /\ other' = r.other
    /\ op' = "append" /\ ret' = None /\ pre' = <<min_stack, other>>
    /\ run' = <<>> /\ got' = <<>>
    /\ UNCHANGED <<made, transfers, ids, taken>>
    /\ UNCHANGED further
    /\ UNCHANGED <<target, queue, stack, iter, pushed, popped>>

\* The caller builds the second stack by pushes of its own.
MOtherPush(item) ==
    /\ target = "MinStack"
    /\ Len(min_stack) + Len(other) < MaxLen
    /\ other' = MinStack_push(other, item)
    /\ op' = "push_other" /\ ret' = None /\ pre' = <<min_stack, other>>
    /\ UNCHANGED <<made, transfers, ids, taken>>
    /\ UNCHANGED further
    /\ UNCHANGED <<target, queue, stack, min_stack, iter,
                   pushed, popped, run, got>>

MinStackNext ==
    \/ \E item \in Vals : MPush(item)
    \/ MPop
    \/ MPeek
    \/ MMin
    \/ MClear
    \/ MAppend
    \/ \E item \in Vals : MOtherPush(item)

-----------------------------------------------------------------------------
\* Money (money.rs)

\* A 64-bit integer is four limbs of 16 bits, the lowest first.
Base == 65536
Limbs == 4

Zero == [i \in 1..Limbs |-> 0]

\* The limbs the amounts are built from: 0, 30, and the limbs around the sign bit.
LimbVals == {0, 30, Base \div 2 - 1, Base \div 2, Base - 1}

\* u64
U64 == [1..Limbs -> LimbVals]

\* Adds one to the limbs from limb i on, the carry lost past the last limb.
RECURSIVE Inc(_, _)
Inc(l, i) ==
    IF i > Len(l) THEN l
    ELSE IF l[i] = Base - 1 THEN Inc([l EXCEPT ![i] = 0], i + 1)
    ELSE [l EXCEPT ![i] = l[i] + 1]

\* 2^64 - u
Negate(u) == Inc([i \in 1..Limbs |-> Base - 1 - u[i]], 1)

\* `amount as i64`: the same 64 bits read as two's complement. An i64 is
\* written here as a sign and a magnitude.
as_i64(u) ==
    IF u[Limbs] < Base \div 2 THEN [neg |-> FALSE, mag |-> u]
    ELSE [neg |-> TRUE, mag |-> Negate(u)]

\* Money(i64), as a call that returned.
Money_new(v) == [panic |-> FALSE, value |-> [neg |-> FALSE, mag |-> v]]

\* From<u64> for Money: Self(amount as i64)
Money_from_u64(a) == [panic |-> FALSE, value |-> as_i64(a)]

MoneyFromU64 ==
    /\ target = "Money" /\ op = "new"
    /\ \E a \in U64 :
        /\ amount' = a
        /\ money' = Money_from_u64(a)
    /\ op' = "from"
    /\ UNCHANGED <<hasher, peak, written, lib_stack, lib_ret>>
    /\ UNCHANGED <<target, queue, stack, min_stack, other, ret, pre, iter,
                   pushed, popped, run, got, made, transfers, ids, taken>>

MoneyNext == MoneyFromU64

-----------------------------------------------------------------------------
\* Adler32Hasher (crypto/adler.rs)

Modulus == 65521

\* Adler32Hasher(65521, 1, 0)
Adler32Hasher_default == <<Modulus, 1, 0>>

\* The u8 values written: the bytes of "123" and the largest byte.
Bytes == {49, 50, 51}
TopByte == 255

\* The slices handed to write: short ones, and a long run of the largest byte.
RECURSIVE SlicesUpTo(_)
SlicesUpTo(n) ==
    IF n = 0 THEN {<<>>}
    ELSE LET S == SlicesUpTo(n - 1)
         IN  S \cup {Append(b, x) : b \in {t \in S : Len(t) = n - 1}, x \in Bytes}

Slices == SlicesUpTo(MaxSlice) \cup {[i \in 1..MaxRun |-> TopByte]}

Larger(a, b) == IF a < b THEN b ELSE a

\* A slip: self.2 is updated before self.1.
Adler_byte_b_first(s, byte) ==
    LET h == s.self
        b == (h[3] + h[2]) % h[1]
        a == (h[2] + byte) % h[1]
    IN  [self |-> <<h[1], a, b>>,
         peak |-> Larger(s.peak, Larger(h[3] + h[2], h[2] + byte))]

\* The body of write's loop, with the largest u32 sum computed so far.
Adler_byte(s, byte) ==
    LET h == s.self
        a == (h[2] + byte) % h[1]
        b == (h[3] + a) % h[1]
    IN  [self |-> <<h[1], a, b>>,
         peak |-> Larger(s.peak, Larger(h[2] + byte, h[3] + a))]

\* for byte in bytes.iter() { ... }: the bytes in order, computed as the
\* first half of the slice and then, from the sums it leaves (self.0 is
\* never assigned), the second half.
RECURSIVE Adler_write(_, _)
Adler_write(s, bytes) ==
    IF bytes = <<>> THEN s
    ELSE IF Len(bytes) = 1 THEN Adler_byte(s, bytes[1])
    ELSE LET half == Len(bytes) \div 2
             mid == Adler_write(s, SubSeq(bytes, 1, half))
         IN  IF mid.self[1] = s.self[1]
             THEN Adler_write(mid, SubSeq(bytes, half + 1, Len(bytes)))
             ELSE mid

\* The bitwise or of two naturals.
RECURSIVE BitOr(_, _)
BitOr(x, y) ==
    IF x = 0 THEN y
    ELSE IF y = 0 THEN x
    ELSE (IF x % 2 = 1 \/ y % 2 = 1 THEN 1 ELSE 0) + 2 * BitOr(x \div 2, y \div 2)

\* A u32 as two limbs, the lowest first.
u32(n) == <<n % Base, (n \div Base) % Base>>

\* x << 16 on a u32: the low limb becomes the high one, the high one is lost.
shl16(x) == <<0, x[1]>>

\* (self.2 << 16 | self.1).into(): a u64
Adler_finish(h) ==
    LET x == shl16(u32(h[3]))
        y == u32(h[2])
    IN  <<BitOr(x[1], y[1]), BitOr(x[2], y[2]), 0, 0>>

AWrite ==
    /\ target = "Adler" /\ written < MaxWrites
    /\ \E bytes \in Slices :
        LET s == Adler_write([self |-> hasher, peak |-> peak], bytes)
        IN  /\ hasher' = s.self
            /\ peak' = s.peak
            /\ pre' = <<hasher, bytes>>
            /\ pushed' = pushed \o bytes
    /\ written' = written + 1
    /\ op' = "write" /\ ret' = None
    /\ UNCHANGED <<amount, money, lib_stack, lib_ret>>
    /\ UNCHANGED <<target, queue, stack, min_stack, other, iter,
                   popped, run, got, made, transfers, ids, taken>>

AFinish ==
    /\ target = "Adler"
    /\ ret' = Adler_finish(hasher)
    /\ op' = "finish"
    /\ UNCHANGED further
    /\ UNCHANGED <<target, queue, stack, min_stack, other, pre, iter, pushed,
                   popped, run, got, made, transfers, ids, taken>>

AdlerNext == AWrite \/ AFinish

-----------------------------------------------------------------------------
\* MinStack of the crate root (lib.rs), a Vec of Item { curr, min }

Item_new(curr, min_) == [curr |-> curr, min |-> min_]

Lib_new == <<>>

Lib_clear(s) == <<>>

Lib_min(s) == IF s # <<>> THEN Some(Last(s).min) ELSE None

\* A slip: every entry gets its own item as its minimum.
Lib_push_own(s, item) == Append(s, Item_new(item, item))

Lib_push(s, item) ==
    IF s # <<>>
    THEN LET curr_min == min(unwrap(Lib_min(s)), item)
         IN  Append(s, Item_new(item, curr_min))
    ELSE Append(s, Item_new(item, item))

Lib_peek(s) == IF s # <<>> THEN Some(Last(s).curr) ELSE None

Lib_peek_min(s) == IF s # <<>> THEN Some(Last(s).min) ELSE None

Lib_pop(s) ==
    LET r == Vec_pop(s)
    IN  IF r.ret # None
        THEN [self |-> r.self, ret |-> Some(unwrap(r.ret).curr)]
        ELSE [self |-> r.self, ret |-> None]

Lib_is_empty(s) == s = <<>>

Lib_len(s) == Len(s)

\* The same call on the MinStack of min_stack.rs and on the one of lib.rs.
BothPush(item) ==
    /\ target = "MinStacks"
    /\ Len(min_stack) < MaxLen
    /\ min_stack' = MinStack_push(min_stack, item)
    /\ lib_stack' = Lib_push(lib_stack, item)
    /\ op' = "push" /\ ret' = None /\ lib_ret' = None
    /\ pre' = <<min_stack, lib_stack>>
    /\ UNCHANGED <<amount, money, hasher, peak, written>>
    /\ UNCHANGED <<target, queue, stack, other, iter, pushed, popped, run, got,
                   made, transfers, ids, taken>>

BothPop ==
    /\ target = "MinStacks"
    /\ LET r == MinStack_pop(min_stack)
           l == Lib_pop(lib_stack)
       IN  /\ min_stack' = r.self /\ ret' = r.ret
           /\ lib_stack' = l.self /\ lib_ret' = l.ret
    /\ op' = "pop"
    /\ pre' = <<min_stack, lib_stack>>
    /\ UNCHANGED <<amount, money, hasher, peak, written>>
    /\ UNCHANGED <<target, queue, stack, other, iter, pushed, popped, run, got,
                   made, transfers, ids, taken>>

BothClear ==
    /\ target = "MinStacks"
    /\ min_stack' = MinStack_clear(min_stack)
    /\ lib_stack' = Lib_clear(lib_stack)
    /\ op' = "clear" /\ ret' = None /\ lib_ret' = None
    /\ pre' = <<min_stack, lib_stack>>
    /\ UNCHANGED <<amount, money, hasher, peak, written>>
    /\ UNCHANGED <<target, queue, stack, other, iter, pushed, popped, run, got,
                   made, transfers, ids, taken>>

MinStacksNext == \/ \E item \in Vals : BothPush(item)
                 \/ BothPop
                 \/ BothClear

-----------------------------------------------------------------------------
\* Specifications: one structure alone, or any one of the three.

Start ==
    /\ queue = Queue_new
    /\ stack = Stack_new
    /\ min_stack = MinStack_new
    /\ other = MinStack_new
    /\ op = "new" /\ ret = None /\ iter = <<>>
    /\ pre = <<>>
    /\ pushed = <<>> /\ popped = <<>>
    /\ run = <<>> /\ got = <<>>
    /\ made = <<"new", <<>>>> /\ transfers = 0
    /\ ids = <<<<>>, <<>>>> /\ taken = <<>>
    /\ amount = Zero /\ money = Money_new(Zero)
    /\ hasher = Adler32Hasher_default /\ peak = 0 /\ written = 0
    /\ lib_stack = Lib_new /\ lib_ret = None

Init == target \in {"Queue", "Stack", "MinStack"} /\ Start

Next == QueueNext \/ StackNext \/ MinStackNext

Spec == Init /\ [][Next]_vars

InitQueue == Init /\ target = "Queue"

SpecQueue == InitQueue /\ [][QueueNext]_vars

InitStack == Init /\ target = "Stack"

SpecStack == InitStack /\ [][StackNext]_vars

InitMinStack == Init /\ target = "MinStack"

SpecMinStack == InitMinStack /\ [][MinStackNext]_vars

InitMoney == target = "Money" /\ Start

SpecMoney == InitMoney /\ [][MoneyNext]_vars

InitAdler == target = "Adler" /\ Start

SpecAdler == InitAdler /\ [][AdlerNext]_vars

InitMinStacks == target = "MinStacks" /\ Start

SpecMinStacks == InitMinStacks /\ [][MinStacksNext]_vars

-----------------------------------------------------------------------------
\* What the properties below are stated with.

IsPrefix(a, b) == Len(a) <= Len(b) /\ SubSeq(b, 1, Len(a)) = a

\* The least of a sequence of items, None for the empty sequence.
Minimum(items) ==
    IF items = <<>> THEN None
    ELSE LET S == {items[i] : i \in 1..Len(items)}
         IN  Some(CHOOSE m \in S : \A x \in S : m <= x)

\* The structure being driven.
Container ==
    CASE target = "Queue" -> queue
      [] target = "Stack" -> stack
      [] target = "MinStack" -> <<min_stack, other>>

\* A Queue or Stack with both containers empty, a MinStack with no entry.
HoldsNothing(c) == c[1] = <<>> /\ (target = "MinStack" \/ c[2] = <<>>)

\* C1: under any interleaving of push and pop, the items a Queue's pops have
\* returned are the earliest pushed ones in push order, and a pop answers None
\* only when every pushed item has been returned.
C1_QueueFifoInterleaved ==
    target = "Queue" =>
        /\ IsPrefix(popped, pushed)
        /\ (op = "pop" /\ ret = None => Len(popped) = Len(pushed))

\* C2: after pushes v1..vn on a Stack with no pop in between, the next n pops
\* return Some(vn), ..., Some(v1).
C2_StackLifoLaw ==
    target = "Stack" =>
        \A k \in 1..Len(got) : got[k] = Some(run[Len(run) + 1 - k])

\* C3: after each push on a MinStack, min() is Some(the least item in the stack).
C3_MinAfterPush ==
    target = "MinStack" /\ op = "push" =>
        /\ MinStack_min(min_stack) # None
        /\ MinStack_min(min_stack) = Minimum(Values(min_stack))

C3_Witness ==
    /\ target = "MinStack" /\ op = "push"
    /\ Values(min_stack) = <<3, 1, 2>>
    /\ MinStack_min(min_stack) = Some(1)

\* C4: after pushes v1..vn on a MinStack the next pops return vn, ..., v1, and
\* after each pop min() is the least item still in the stack, None once empty.
C4_PopsLifoRevealMin ==
    target = "MinStack" =>
        /\ \A k \in 1..Len(got) : got[k] = Some(run[Len(run) + 1 - k])
        /\ op = "pop" => MinStack_min(min_stack) = Minimum(Values(min_stack))

C4_Witness ==
    /\ target = "MinStack" /\ op = "pop"
    /\ run = <<3, 1, 2>>
    /\ got = <<Some(2), Some(1), Some(3)>>
    /\ MinStack_min(pre[1]) = Some(3)
    /\ MinStack_min(min_stack) = None

\* C5: after pushes v1..vn on a Queue with no pop in between, the next n pops
\* return v1, ..., vn.
C5_QueueFifoLaw ==
    target = "Queue" => \A k \in 1..Len(got) : got[k] = Some(run[k])

C5_Witness ==
    /\ target = "Queue" /\ op = "pop"
    /\ run = <<1, 2, 3>>
    /\ got = <<Some(1), Some(2), Some(3)>>

\* C6: after A.append(&mut B), A is the stack made by pushing A's items and
\* then B's items in order, and B is empty.
C6_Append ==
    target = "MinStack" /\ op = "append" =>
        /\ min_stack = MinStack_from(Values(pre[1]) \o Values(pre[2]))
        /\ other = MinStack_new

C6_Witness ==
    /\ target = "MinStack" /\ op = "append"
    /\ Len(pre[1]) >= 1 /\ Len(pre[2]) >= 2
    /\ min_stack # pre[1] \o pre[2]
    /\ other = <<>>

\* C7: pop returns what peek would have returned just before it, and on a
\* non-empty stack removes exactly the top entry, so len drops by one.
C7_PopPeekAgreement ==
    target = "MinStack" /\ op = "pop" =>
        /\ ret = MinStack_peek(pre[1])
        /\ pre[1] = <<>> => ret = None /\ min_stack = <<>>
        /\ pre[1] # <<>> =>
            /\ ret = Some(Last(pre[1])[1])
            /\ min_stack = Front(pre[1])
            /\ MinStack_len(min_stack) = MinStack_len(pre[1]) - 1

C7_Witness ==
    /\ target = "MinStack" /\ op = "pop"
    /\ Len(pre[1]) >= 2
    /\ ret # None /\ ret # MinStack_min(pre[1])
    /\ MinStack_len(min_stack) = MinStack_len(pre[1]) - 1

\* C8: on a structure holding no elements, pop (and peek and min of MinStack)
\* returns None and leaves the structure empty.
C8_EmptyLaw ==
    op \in {"pop", "peek", "min"} /\ HoldsNothing(pre) =>
        ret = None /\ HoldsNothing(Container)

C8_Witness ==
    /\ target = "Stack" /\ op = "pop"
    /\ Len(pushed) >= 1 /\ Len(popped) = Len(pushed)
    /\ HoldsNothing(pre)
    /\ ret = None /\ HoldsNothing(stack)

\* C9: a pop that returns None leaves both backing containers exactly as they
\* were before the call.
C9_NoPartialMutation ==
    op = "pop" /\ ret = None => Container = pre

\* C10: consuming a Queue yields the resident items once each in push order:
\* when the pops so far took the earliest items, the items pushed after them.
C10_IntoIterFifo ==
    target = "Queue" /\ op = "into_iter" /\ IsPrefix(popped, pushed) =>
        iter = SubSeq(pushed, Len(popped) + 1, Len(pushed))

\* The pushes, by number, whose items no pop has returned yet.
NotYet == (1..Len(pushed)) \ {taken[k] : k \in 1..Len(taken)}

\* A finite set of numbers as an ascending sequence.
RECURSIVE Ascending(_)
Ascending(S) ==
    IF S = {} THEN <<>>
    ELSE LET m == CHOOSE x \in S : \A y \in S : x <= y
         IN  <<m>> \o Ascending(S \ {m})

Greatest(S) == CHOOSE x \in S : \A y \in S : y <= x

\* The items the pushes numbered in ns brought.
ItemsOf(ns) == [k \in 1..Len(ns) |-> pushed[ns[k]]]

\* C11: Queue::from_iter leaves the state that pushing the items in iteration
\* order on a new Queue leaves (all in self.0, in that order), and the pops that
\* follow return the items in that order, None once all are returned.
C11_FromIter ==
    target = "Queue" /\ made[1] = "from_iter" =>
        /\ op = "from_iter" => queue = <<made[2], <<>>>>
        /\ pushed = made[2] =>
            /\ IsPrefix(popped, made[2])
            /\ (op = "pop" /\ ret = None => popped = made[2])

C11_Witness ==
    /\ target = "Queue" /\ op = "pop"
    /\ made = <<"from_iter", <<3, 1, 2>>>>
    /\ pushed = made[2]
    /\ popped = <<3, 1, 2>>

\* C12: under any interleaving of push and pop, each pop of a Stack returns the
\* most recently pushed item not yet popped, and None only when every pushed
\* item has been popped.
C12_StackLifoInterleaved ==
    target = "Stack" /\ op = "pop" =>
        IF ret = None THEN NotYet = {}
        ELSE Last(taken) = Greatest(NotYet \cup {Last(taken)})

\* C13: peek and min change neither the entries nor len; peek returns the top
\* entry's item and min the top entry's running minimum.
C13_PeekMinPure ==
    target = "MinStack" /\ op \in {"peek", "min"} =>
        /\ min_stack = pre[1] /\ other = pre[2]
        /\ MinStack_len(min_stack) = MinStack_len(pre[1])
        /\ op = "peek" =>
            ret = IF pre[1] = <<>> THEN None ELSE Some(pre[1][Len(pre[1])][1])
        /\ op = "min" =>
            ret = IF pre[1] = <<>> THEN None ELSE Some(pre[1][Len(pre[1])][2])

C13_Witness ==
    /\ target = "MinStack" /\ op = "min"
    /\ Values(pre[1]) = <<3, 1, 2>>
    /\ min_stack = pre[1]
    /\ ret = Some(1)

\* C14: after clear the stack is a new MinStack (len 0, is_empty, pop, peek and
\* min all None), and the running minima of the items pushed after a clear are
\* those of a new stack given these items alone.
C14_Clear ==
    target = "MinStack" =>
        /\ op = "clear" =>
            /\ min_stack = MinStack_new
            /\ MinStack_len(min_stack) = 0 /\ MinStack_is_empty(min_stack)
            /\ MinStack_pop(min_stack).ret = None
            /\ MinStack_peek(min_stack) = None
            /\ MinStack_min(min_stack) = None
        /\ made[1] = "clear" /\ got = <<>> /\ Len(run) = Len(min_stack) =>
            min_stack = MinStack_from(run)

C14_Witness ==
    /\ target = "MinStack" /\ op = "push"
    /\ made[1] = "clear"
    /\ got = <<>> /\ run = <<3, 2>>
    /\ min_stack = <<<<3, 3>>, <<2, 2>>>>

\* C15: in every state reached by push, pop, clear and append, the running
\* minimum stored in entry i is the least of the items of entries 1..i.
C15_RunningMin ==
    target = "MinStack" =>
        \A s \in {min_stack, other} : \A i \in 1..Len(s) :
            Some(s[i][2]) = Minimum(SubSeq(Values(s), 1, i))

C15_Witness ==
    /\ target = "MinStack" /\ op = "append"
    /\ Len(pre[2]) = 2
    /\ min_stack = <<<<2, 2>>, <<3, 2>>, <<1, 1>>>>

\* C16: after every push or pop of a Stack the second queue is empty and the
\* queue that takes the pushes holds every live item, oldest first.
C16_RoleSwap ==
    target = "Stack" =>
        /\ stack[2] = <<>>
        /\ ids[1] = Ascending(NotYet)
        /\ stack[1] = ItemsOf(Ascending(NotYet))

\* C17: a Queue's pop with a non-empty outbox returns the outbox's top and
\* leaves the inbox as it was; with an empty outbox it moves the whole inbox
\* over, reversed, and returns the new top.
C17_LazyTransfer ==
    target = "Queue" /\ op = "pop" =>
        /\ pre[2] # <<>> =>
            /\ ret = Some(pre[2][Len(pre[2])])
            /\ queue = <<pre[1], Front(pre[2])>>
        /\ pre[2] = <<>> /\ pre[1] # <<>> =>
            /\ ret = Some(pre[1][1])
            /\ queue = <<<<>>, Front(rev(pre[1]))>>

\* C18: in every state of a Queue, the outbox read top to bottom followed by
\* the inbox read bottom to top is the not yet returned items in arrival order.
C18_QueueOrder ==
    target = "Queue" /\ Live =>
        /\ rev(ids[2]) \o ids[1] = Ascending(NotYet)
        /\ rev(queue[2]) \o queue[1] = ItemsOf(Ascending(NotYet))

\* C19: a Queue moves each pushed item from self.0 to self.1 at most once and
\* never back: the moves number the items that left self.0, each of which is in
\* self.1 or was returned; a push leaves self.1 alone and a pop empties self.0.
C19_SingleTransfer ==
    target = "Queue" /\ Live =>
        /\ transfers + Len(queue[1]) = Len(pushed)
        /\ transfers = Len(ids[2]) + Len(taken)
        /\ op = "push" =>
            queue[2] = pre[2] /\ queue[1] = Append(pre[1], pushed[Len(pushed)])
        /\ op = "pop" => queue[1] = <<>>

C19_Witness ==
    /\ target = "Queue" /\ op = "pop"
    /\ transfers = 3
    /\ taken = <<1, 3>>
    /\ ids = <<<<>>, <<2>>>>

\* C20: push only adds an entry on top and pop only removes the top entry: the
\* entries that stay keep their item and their running minimum.
C20_EntriesKept ==
    target = "MinStack" =>
        /\ op = "push" =>
            /\ Len(min_stack) = Len(pre[1]) + 1
            /\ SubSeq(min_stack, 1, Len(pre[1])) = pre[1]
        /\ op = "pop" =>
            min_stack = SubSeq(pre[1], 1, Len(pre[1]) - 1)

C20_Witness ==
    /\ target = "MinStack" /\ op = "push"
    /\ pre[1] = <<<<3, 3>>, <<2, 2>>>>
    /\ min_stack = <<<<3, 3>>, <<2, 2>>, <<1, 1>>>>

\* How many times each item occurs in a sequence.
BagOf(items) ==
    [v \in Vals |-> Cardinality({i \in 1..Len(items) : items[i] = v})]

\* The pushes, by number, whose items the two containers hold.
Held == UNION {{ids[k][i] : i \in 1..Len(ids[k])} : k \in {1, 2}}

\* C21: over any interleaving of push and pop on a Stack, the items the pops
\* returned together with the items in the two queues are the items pushed,
\* each as many times, and a pop answers None only when as many items were
\* returned as were pushed.
C21_StackConservation ==
    target = "Stack" =>
        /\ BagOf(popped \o stack[1] \o stack[2]) = BagOf(pushed)
        /\ NotYet = Held
        /\ op = "pop" /\ ret = None => Len(popped) = Len(pushed)

\* C22: over any interleaving of push and pop on a Queue, the items the pops
\* returned together with the items in the two stacks are the items pushed,
\* each as many times and each push once; a pop answers None exactly when both
\* stacks were empty, that is when as many items were returned as were pushed.
C22_QueueConservation ==
    target = "Queue" /\ Live =>
        /\ BagOf(popped \o queue[1] \o queue[2]) = BagOf(pushed)
        /\ NotYet = Held
        /\ Len(taken) + Len(ids[1]) + Len(ids[2]) = Len(pushed)
        /\ popped = ItemsOf(taken)
        /\ queue = <<ItemsOf(ids[1]), ItemsOf(ids[2])>>
        /\ op = "pop" =>
            /\ ret = None <=> pre = <<<<>>, <<>>>>
            /\ ret = None => Len(popped) = Len(pushed)
            /\ ret # None => Len(popped) - 1 < Len(pushed)

C22_Witness ==
    /\ target = "Queue" /\ op = "push"
    /\ pushed = <<1, 2, 3, 2>>
    /\ taken = <<1, 3>>
    /\ queue = <<<<2>>, <<2>>>>

\* C23: Money::from of a u64 that fits an i64 returns the Money of the same
\* amount, and of a u64 above i64::MAX panics rather than return a wrapped,
\* negative amount.
C23_FromU64Checked ==
    target = "Money" /\ op = "from" =>
        IF amount[Limbs] < Base \div 2
        THEN money = Money_new(amount)
        ELSE money.panic

\* The sum of a sequence of bytes.
RECURSIVE Sum(_)
Sum(bytes) ==
    IF bytes = <<>> THEN 0
    ELSE IF Len(bytes) = 1 THEN bytes[1]
    ELSE LET half == Len(bytes) \div 2
         IN  Sum(SubSeq(bytes, 1, half)) + Sum(SubSeq(bytes, half + 1, Len(bytes)))

\* The sum of the sums of the non-empty prefixes of a sequence of bytes:
\* byte i of n is in n + 1 - i of them.
SumOfSums(bytes) ==
    Sum([i \in 1..Len(bytes) |-> (Len(bytes) + 1 - i) * bytes[i]])

\* The number a u64 in limbs stands for, when it has two limbs at most.
ToNat(l) == l[1] + Base * l[2]

\* C24: after any writes to a default Adler32Hasher both sums are in
\* 0..65520 and no sum computed on the way exceeds a u32; a write of bytes
\* x1..xn to sums a, b leaves a + x1 + ... + xn and b + n * a + the sum of the
\* prefix sums, both mod 65521 (what a = a + x, b = b + a per byte give);
\* finish returns b * 2^16 + a, which is 1 when nothing was written and
\* 19726487 after the bytes of "123".
C24_Adler32 ==
    target = "Adler" =>
        /\ hasher[1] = Modulus
        /\ hasher[2] \in 0..Modulus - 1 /\ hasher[3] \in 0..Modulus - 1
        /\ peak \div Base < Base
        /\ hasher[2] = (1 + Sum(pushed)) % Modulus
        /\ hasher[3] = (Len(pushed) + SumOfSums(pushed)) % Modulus
        /\ op = "write" =>
            LET a == pre[1][2]
                b == pre[1][3]
                n == Len(pre[2])
            IN  /\ hasher[2] = (a + Sum(pre[2])) % Modulus
                /\ hasher[3] = (b + n * a + SumOfSums(pre[2])) % Modulus
        /\ op = "finish" =>
            /\ ret = <<hasher[2], hasher[3], 0, 0>>
            /\ pushed = <<>> => ToNat(ret) = 1
            /\ pushed = <<49, 50, 51>> => ToNat(ret) = 19726487

C24_Witness ==
    /\ target = "Adler" /\ op = "finish"
    /\ pushed = <<49, 50, 51>>
    /\ ToNat(ret) = 19726487

\* C25: given the same pushes, pops and clears, the MinStack of lib.rs and
\* the one of min_stack.rs hold the same (item, minimum) entries and answer
\* pop, peek, min, len and is_empty alike; on lib.rs's, peek_min is min.
C25_MinStacksAgree ==
    target = "MinStacks" =>
        /\ Len(lib_stack) = Len(min_stack)
        /\ \A i \in 1..Len(min_stack) :
            min_stack[i] = <<lib_stack[i].curr, lib_stack[i].min>>
        /\ op = "pop" => lib_ret = ret
        /\ Lib_peek(lib_stack) = MinStack_peek(min_stack)
        /\ Lib_min(lib_stack) = MinStack_min(min_stack)
        /\ Lib_len(lib_stack) = MinStack_len(min_stack)
        /\ Lib_is_empty(lib_stack) = MinStack_is_empty(min_stack)
        /\ Lib_peek_min(lib_stack) = Lib_min(lib_stack)

C25_Witness ==
    /\ target = "MinStacks" /\ op = "pop"
    /\ Len(pre[2]) = 3
    /\ lib_stack = <<Item_new(3, 3), Item_new(1, 1)>>
    /\ lib_ret = Some(2)
    /\ Lib_min(lib_stack) = Some(1)

====
